---- MODULE Spec2Model ----
(***************************************************************************)
(* State-machine model of xla/tools/replay_computation.cc: the batch loop  *)
(* of RealMain, the body of ReplayComputation (argument provisioning, the  *)
(* infeed decision, the single-thread infeed pool, the run loop) and the   *)
(* infeed worker lambda that runs concurrently with the run loop.          *)
(***************************************************************************)
EXTENDS Integers, Sequences, FiniteSets, TLC

(* ------------------------------ bounds --------------------------------- *)
\* number of input files on the command line (args of RealMain)
NumFiles == 2
\* largest --num_runs explored
MaxRuns == 2
\* largest --num_infeeds explored
MaxInfeeds == 2
\* largest number of recorded arguments of a snapshot
MaxArgs == 2
\* largest number of parameters of a snapshot's entry computation
MaxParams == 1
\* number of buffers the backend's infeed queue accepts before a push blocks
InfeedCapacity == 1

(* ------------------------- program constants --------------------------- *)
\* the CHECK at lines 113-115 tells apart programs with 0, 1 and ">= 2" infeed
\* instructions; programs are explored up to that many
AmbiguousInfeedOps == 2

(* ------------------------------ state ---------------------------------- *)
VARIABLES
  opts,            \* struct Options, fixed for the whole process
  process,         \* "running" | "exited" | "aborted"
  abortCause,      \* which CHECK / OrDie killed the process ("" if none)
  clientAlive,     \* the LocalClient exists (until DestroyLocalInstances)
  exit_status,     \* RealMain's exit_status
  argIdx,          \* position of the for loop of RealMain (1-based)
  failures,        \* the kinds of error lines written to stderr so far
  report,          \* lines written to stdout by the current loop iteration
  pc,              \* position of the main thread inside the loop body
  snapshot,        \* the HloSnapshot read for the current file; a field is
                   \* drawn where the code first reads it
  computation,     \* what client->LoadSnapshot(module) returned
  arguments,       \* std::vector<unique_ptr<GlobalData>> arguments
  calls,           \* per-replay counters of collaborator calls
  provide_infeed,  \* bool provide_infeed
  infeed_shape,    \* "unset" | "parsed" | "inferred"
  i,               \* loop variable of the run loop
  result,          \* unique_ptr<Literal> result (NullLiteral = nullptr)
  result_status,   \* what ReplayComputation returns / returned
  execs,           \* the execute calls issued by the current replay, in order
  consumed,        \* infeed buffers dequeued by the run in flight
  workerPc,        \* "none" | "scheduled" | "push" | "done"
  pushes,          \* TransferToInfeed calls accepted in the current replay:
                   \* for each, which generated literal was pushed
  channel,         \* buffers sitting in the backend's infeed queue
  backlog          \* buffers that sat in the queue when the current replay
                   \* started (left there by earlier replays)

vars == <<opts, process, abortCause, clientAlive, exit_status, argIdx, failures,
          report, pc, snapshot, computation, arguments, calls, provide_infeed, infeed_shape,
          i, result, result_status, execs, consumed, workerPc, pushes, channel,
          backlog>>

batchVars == <<exit_status, argIdx, failures, report>>
workerVars == <<workerPc, pushes>>

(* ------------------------------ values --------------------------------- *)
\* struct Options; fake_infeed_shape is kept as "" or a non-empty string
OptionSpace ==
  [ use_fake_data            : BOOLEAN,
    print_result             : BOOLEAN,
    num_runs                 : 0..MaxRuns,
    num_infeeds              : 0..MaxInfeeds,
    fake_infeed_shape        : {"", "shape"},
    generate_fake_infeed     : BOOLEAN,
    xla_hlo_profile_last_run : BOOLEAN ]

\* the fields of an HloSnapshot the tool reads: module.arguments() (line 92)
\* and snapshot.has_result() (line 210); *_read tells whether the code has
\* read the field yet
NoSnapshot == [arguments_read |-> FALSE, arguments |-> 0,
               result_read |-> FALSE, has_result |-> FALSE]

\* the computation LoadSnapshot builds from snapshot.hlo(): the number of
\* parameters of its entry computation and of its kInfeed instructions
Computations ==
  [ params     : 0..MaxParams,
    infeed_ops : 0..AmbiguousInfeedOps ]

NoComputation == [params |-> 0, infeed_ops |-> 0]

\* result == nullptr
NullLiteral == [run |-> 0]
\* the literal produced by run r (1-based) of the current replay
LiteralOfRun(r) == [run |-> r]

NoStatus == [ok |-> TRUE, error |-> "", value |-> NullLiteral]

ZeroCalls == [load |-> 0, fake_args |-> 0, from_proto |-> 0, to_server |-> 0,
              schedule |-> 0, fake_literal |-> 0]

\* a handle made from the k-th recorded argument / for the k-th parameter
RecordedHandle(k) == [src |-> "recorded", idx |-> k]
FakeHandle(k) == [src |-> "fake", idx |-> k]

Running == process = "running"

(* ------------------------------ Init ----------------------------------- *)
Init ==
  /\ opts \in OptionSpace
  /\ process = "running"
  /\ abortCause = ""
  /\ clientAlive = TRUE
  /\ exit_status = "EXIT_SUCCESS"
  /\ argIdx = 1
  /\ failures = {}
  /\ report = <<>>
  /\ pc = "read"
  /\ snapshot = NoSnapshot
  /\ computation = NoComputation
  /\ arguments = <<>>
  /\ calls = ZeroCalls
  /\ provide_infeed = FALSE
  /\ infeed_shape = "unset"
  /\ i = 0
  /\ result = NullLiteral
  /\ result_status = NoStatus
  /\ execs = <<>>
  /\ consumed = 0
  /\ workerPc = "none"
  /\ pushes = <<>>
  /\ channel = 0
  /\ backlog = 0


(* --------------------------- shared helpers ---------------------------- *)
\* a failed CHECK / TF_CHECK_OK / ...OrDie: the whole process dies on the spot
Abort(cause) ==
  /\ process' = "aborted"
  /\ abortCause' = cause

NoAbort == UNCHANGED <<process, abortCause>>

\* the locals of one loop iteration of RealMain (and of the ReplayComputation
\* call it makes) go out of scope when the iteration ends
ResetLocals ==
  /\ report' = <<>>
  /\ snapshot' = NoSnapshot
  /\ computation' = NoComputation
  /\ arguments' = <<>>
  /\ calls' = ZeroCalls
  /\ provide_infeed' = FALSE
  /\ infeed_shape' = "unset"
  /\ i' = 0
  /\ result' = NullLiteral
  /\ result_status' = NoStatus
  /\ execs' = <<>>
  /\ consumed' = 0
  /\ workerPc' = "none"
  /\ pushes' = <<>>
  /\ backlog' = 0

\* lines 187, 193, 201, 218: `continue` or the end of the loop body; the
\* iteration's locals are destroyed and the loop moves to the next arg, or ends
NextArg ==
  /\ Running /\ pc = "continue"
  /\ argIdx' = argIdx + 1
  /\ pc' = IF argIdx + 1 > NumFiles THEN "destroy" ELSE "read"
  /\ ResetLocals
  /\ NoAbort
  /\ UNCHANGED <<opts, clientAlive, exit_status, failures, channel>>

\* TF_ASSIGN_OR_RETURN / TF_RETURN_IF_ERROR taking the error branch
ReturnError(e) ==
  /\ result_status' = [ok |-> FALSE, error |-> e, value |-> NullLiteral]
  /\ pc' = "returning"

Count(field) == [calls EXCEPT ![field] = @ + 1]

(* ------------------------ RealMain: reading ---------------------------- *)
\* exit_status after ReadBinaryProto failed: the code leaves it alone
StatusAfterReadFailure(es) == es

\* lines 188-194
ReadBinaryProto ==
  /\ Running /\ pc = "read" /\ argIdx <= NumFiles
  /\ \E ok \in BOOLEAN :
       IF ok
       THEN /\ pc' = "load"
            /\ UNCHANGED <<exit_status, failures>>
       ELSE /\ failures' = failures \cup {"not_snapshot"}
            /\ exit_status' = StatusAfterReadFailure(exit_status)
            /\ pc' = "continue"
  /\ NoAbort
  /\ UNCHANGED <<opts, backlog, clientAlive, computation, argIdx, report, snapshot, arguments, calls,
                 provide_infeed, infeed_shape, i, result, result_status, execs,
                 consumed, workerVars, channel>>

(* -------------------- ReplayComputation: arguments --------------------- *)
\* line 86
LoadSnapshot ==
  /\ Running /\ pc = "load"
  /\ calls' = Count("load")
  /\ backlog' = channel
  /\ \/ \E c \in Computations :
          /\ computation' = c
          /\ pc' = "provision"
          /\ UNCHANGED result_status
     \/ ReturnError("LoadSnapshot") /\ UNCHANGED computation
  /\ NoAbort
  /\ UNCHANGED <<opts, clientAlive, batchVars, snapshot, arguments,
                 provide_infeed, infeed_shape, i, result, execs, consumed,
                 workerVars, channel>>

\* line 89: which of the two provisioning branches is taken
UseFakeArguments_Inverted == ~opts.use_fake_data

UseFakeArguments == opts.use_fake_data

\* what MakeFakeArgumentsOrDie hands back: one handle per parameter
MakeFakeArguments(c) == [k \in 1..c.params |-> FakeHandle(k)]

\* lines 89-90
ProvisionFake ==
  /\ Running /\ pc = "provision" /\ UseFakeArguments
  /\ calls' = Count("fake_args")
  /\ \E ok \in BOOLEAN :
       IF ok
       THEN /\ arguments' = MakeFakeArguments(computation)
            /\ pc' = "infeed"
            /\ NoAbort
       ELSE /\ Abort("MakeFakeArgumentsOrDie")
            /\ UNCHANGED <<arguments, pc>>
  /\ UNCHANGED <<opts, backlog, clientAlive, computation, batchVars, snapshot, provide_infeed,
                 infeed_shape, i, result, result_status, execs, consumed,
                 workerVars, channel>>

\* line 92: the loop starts, reading module.arguments()
ReadRecordedArguments ==
  /\ Running /\ pc = "provision" /\ ~UseFakeArguments
  /\ ~snapshot.arguments_read
  /\ \E n \in 0..MaxArgs :
       snapshot' = [snapshot EXCEPT !.arguments_read = TRUE, !.arguments = n]
  /\ NoAbort
  /\ UNCHANGED <<opts, backlog, clientAlive, computation, batchVars, pc, arguments, calls,
                 provide_infeed, infeed_shape, i, result, result_status, execs,
                 consumed, workerVars, channel>>

ProvisionRecordedArg_SkipBad ==
  /\ Running /\ pc = "provision" /\ ~UseFakeArguments
  /\ snapshot.arguments_read
  /\ Len(arguments) < snapshot.arguments
  /\ \E o \in {"ok", "bad_proto", "transfer_failed"} :
       /\ calls' = IF o = "bad_proto"
                   THEN Count("from_proto")
                   ELSE [calls EXCEPT !["from_proto"] = @ + 1,
                                      !["to_server"] = @ + 1]
       /\ arguments' = Append(arguments, RecordedHandle(Len(arguments) + 1))
       /\ IF o = "ok"
          THEN UNCHANGED result_status
          ELSE result_status' =
                 [ok |-> FALSE,
                  error |-> IF o = "bad_proto" THEN "CreateFromProto"
                                               ELSE "TransferToServer",
                  value |-> NullLiteral]
       /\ UNCHANGED pc
  /\ NoAbort
  /\ UNCHANGED <<opts, backlog, clientAlive, computation, batchVars, snapshot, provide_infeed,
                 infeed_shape, i, result, execs, consumed, workerVars, channel>>

\* lines 92-98, one iteration of the loop over module.arguments()
ProvisionRecordedArg ==
  /\ Running /\ pc = "provision" /\ ~UseFakeArguments
  /\ snapshot.arguments_read
  /\ Len(arguments) < snapshot.arguments
  /\ \E o \in {"ok", "bad_proto", "transfer_failed"} :
       /\ calls' = IF o = "bad_proto"
                   THEN Count("from_proto")
                   ELSE [calls EXCEPT !["from_proto"] = @ + 1,
                                      !["to_server"] = @ + 1]
       /\ IF o = "ok"
          THEN /\ arguments' = Append(arguments, RecordedHandle(Len(arguments) + 1))
               /\ UNCHANGED <<pc, result_status>>
          ELSE /\ ReturnError(IF o = "bad_proto" THEN "CreateFromProto"
                                                 ELSE "TransferToServer")
               /\ UNCHANGED arguments
  /\ NoAbort
  /\ UNCHANGED <<opts, backlog, clientAlive, computation, batchVars, snapshot, provide_infeed,
                 infeed_shape, i, result, execs, consumed, workerVars, channel>>

\* line 92, the loop over module.arguments() is exhausted
ProvisionRecordedDone ==
  /\ Running /\ pc = "provision" /\ ~UseFakeArguments
  /\ snapshot.arguments_read
  /\ Len(arguments) = snapshot.arguments
  /\ pc' = "infeed"
  /\ NoAbort
  /\ UNCHANGED <<opts, backlog, clientAlive, computation, batchVars, snapshot, arguments, calls,
                 provide_infeed, infeed_shape, i, result, result_status, execs,
                 consumed, workerVars, channel>>

(* ------------------ ReplayComputation: infeed decision ----------------- *)
\* lines 103-108: a non-empty --fake_infeed_shape is parsed; a string that does
\* not parse fails TF_CHECK_OK
ParseFakeInfeedShape ==
  /\ Running /\ pc = "infeed" /\ opts.fake_infeed_shape # ""
  /\ \E ok \in BOOLEAN :
       IF ok
       THEN /\ infeed_shape' = "parsed"
            /\ provide_infeed' = TRUE
            /\ pc' = "pool"
            /\ NoAbort
       ELSE /\ Abort("ParseShapeString")
            /\ UNCHANGED <<infeed_shape, provide_infeed, pc>>
  /\ UNCHANGED <<opts, backlog, clientAlive, computation, batchVars, snapshot, arguments, calls, i,
                 result, result_status, execs, consumed, workerVars, channel>>

\* lines 110-122: the scan over the instructions, having seen `seen` of the
\* program's n infeed instructions with the local provide_infeed = provide.
\* CHECK(!provide_infeed) fails at the second infeed instruction.
ScanInstructions_NoCheck(seen, n, provide) ==
  [provide |-> provide \/ seen < n, check_failed |-> FALSE]

ScanInstructions_AlwaysProvide(seen, n, provide) ==
  [provide |-> TRUE, check_failed |-> n - seen >= AmbiguousInfeedOps]

RECURSIVE ScanInstructions(_, _, _)
ScanInstructions(seen, n, provide) ==
  IF seen = n
  THEN [provide |-> provide, check_failed |-> FALSE]
  ELSE IF provide
       THEN [provide |-> provide, check_failed |-> TRUE]
       ELSE ScanInstructions(seen + 1, n, TRUE)

InferInfeedShape_First ==
  /\ Running /\ pc = "infeed"
  /\ opts.generate_fake_infeed
  /\ LET scan == ScanInstructions(0, computation.infeed_ops, FALSE) IN
       /\ provide_infeed' = scan.provide
       /\ infeed_shape' = IF scan.provide THEN "inferred" ELSE infeed_shape
       /\ IF scan.check_failed
          THEN Abort("CHECK(!provide_infeed)") /\ UNCHANGED pc
          ELSE pc' = "pool" /\ NoAbort
  /\ UNCHANGED <<opts, backlog, clientAlive, computation, batchVars, snapshot, arguments, calls, i,
                 result, result_status, execs, consumed, workerVars, channel>>

\* lines 109-123
InferInfeedShape ==
  /\ Running /\ pc = "infeed"
  /\ opts.fake_infeed_shape = "" /\ opts.generate_fake_infeed
  /\ LET scan == ScanInstructions(0, computation.infeed_ops, FALSE) IN
       /\ provide_infeed' = scan.provide
       /\ infeed_shape' = IF scan.provide THEN "inferred" ELSE infeed_shape
       /\ IF scan.check_failed
          THEN Abort("CHECK(!provide_infeed)") /\ UNCHANGED pc
          ELSE pc' = "pool" /\ NoAbort
  /\ UNCHANGED <<opts, backlog, clientAlive, computation, batchVars, snapshot, arguments, calls, i,
                 result, result_status, execs, consumed, workerVars, channel>>

\* lines 101-123 with neither flag given: provide_infeed stays false
NoInfeedRequested ==
  /\ Running /\ pc = "infeed"
  /\ opts.fake_infeed_shape = "" /\ ~opts.generate_fake_infeed
  /\ pc' = "pool"
  /\ NoAbort
  /\ UNCHANGED <<opts, backlog, clientAlive, computation, batchVars, snapshot, arguments, calls,
                 provide_infeed, infeed_shape, i, result, result_status, execs,
                 consumed, workerVars, channel>>

(* ------------------- ReplayComputation: infeed pool -------------------- *)
SchedulePool_InsideLoop ==
  /\ Running /\ pc \in {"pool", "run"} /\ provide_infeed
  /\ calls.schedule <= i
  /\ workerPc' = "scheduled"
  /\ calls' = Count("schedule")
  /\ pc' = "run"
  /\ NoAbort
  /\ UNCHANGED <<opts, backlog, clientAlive, computation, batchVars, snapshot, arguments,
                 provide_infeed, infeed_shape, i, result, result_status, execs,
                 consumed, pushes, channel>>

\* lines 129-146: the pool is emplaced and the lambda scheduled on it
SchedulePool ==
  /\ Running /\ pc = "pool" /\ provide_infeed
  /\ workerPc' = "scheduled"
  /\ calls' = Count("schedule")
  /\ pc' = "run"
  /\ NoAbort
  /\ UNCHANGED <<opts, backlog, clientAlive, computation, batchVars, snapshot, arguments,
                 provide_infeed, infeed_shape, i, result, result_status, execs,
                 consumed, pushes, channel>>

\* line 129, provide_infeed false: the optional pool stays empty
SkipPool ==
  /\ Running /\ pc = "pool" /\ ~provide_infeed
  /\ pc' = "run"
  /\ NoAbort
  /\ UNCHANGED <<opts, backlog, clientAlive, computation, batchVars, snapshot, arguments, calls,
                 provide_infeed, infeed_shape, i, result, result_status, execs,
                 consumed, workerVars, channel>>

(* --------------------------- infeed worker ----------------------------- *)
WorkerAfter_OneMore(j) == IF j <= opts.num_infeeds THEN "push" ELSE "done"

\* line 142: where the lambda stands after j of its pushes went through
WorkerAfter(j) == IF j < opts.num_infeeds THEN "push" ELSE "done"

\* lines 133-136: MakeFakeLiteral, once, before the loop
WorkerGenerate ==
  /\ Running /\ workerPc = "scheduled"
  /\ calls' = Count("fake_literal")
  /\ \E ok \in BOOLEAN :
       IF ok
       THEN workerPc' = WorkerAfter(0) /\ NoAbort
       ELSE Abort("MakeFakeLiteral") /\ UNCHANGED workerPc
  /\ UNCHANGED <<opts, backlog, clientAlive, computation, batchVars, pc, snapshot, arguments,
                 provide_infeed, infeed_shape, i, result, result_status, execs,
                 consumed, pushes, channel>>

\* the literal a push transfers: *data, the one made before the loop
PushedLiteral == calls.fake_literal

\* lines 142-144, a TransferToInfeed the backend accepts; it waits while the
\* infeed queue is full
WorkerPush ==
  /\ Running /\ workerPc = "push"
  /\ channel < InfeedCapacity
  /\ pushes' = Append(pushes, PushedLiteral)
  /\ channel' = channel + 1
  /\ workerPc' = WorkerAfter(Len(pushes) + 1)
  /\ NoAbort
  /\ UNCHANGED <<opts, backlog, clientAlive, computation, batchVars, pc, snapshot, arguments, calls,
                 provide_infeed, infeed_shape, i, result, result_status, execs,
                 consumed>>

WorkerPushFail_Retry ==
  /\ Running /\ workerPc = "push"
  /\ abortCause' = "TransferToInfeed"
  /\ UNCHANGED <<opts, backlog, process, clientAlive, computation, batchVars, pc, snapshot,
                 arguments, calls, provide_infeed, infeed_shape, i, result,
                 result_status, execs, consumed, workerVars, channel>>

\* line 143, TransferToInfeed returns an error: TF_CHECK_OK fails
WorkerPushFail ==
  /\ Running /\ workerPc = "push"
  /\ Abort("TransferToInfeed")
  /\ UNCHANGED <<opts, backlog, clientAlive, computation, batchVars, pc, snapshot, arguments, calls,
                 provide_infeed, infeed_shape, i, result, result_status, execs,
                 consumed, workerVars, channel>>

(* --------------------- ReplayComputation: run loop --------------------- *)
ExecuteArguments_Reversed(args) ==
  [k \in 1..Len(args) |-> args[Len(args) + 1 - k]]

\* lines 148-152: execute_arguments, the raw pointers of `arguments` in order
ExecuteArguments(args) == [k \in 1..Len(args) |-> args[k]]

ProfileOn_EveryRun(run0) == opts.xla_hlo_profile_last_run

\* line 160: is --xla_hlo_profile set for the run with loop index run0
ProfileOn(run0) ==
  opts.xla_hlo_profile_last_run /\ run0 = opts.num_runs - 1

\* lines 157-174: iteration i of the loop issues its execute call
ExecuteBegin ==
  /\ Running /\ pc = "run" /\ i < opts.num_runs
  /\ execs' = Append(execs, [run      |-> i + 1,
                             retrieve |-> opts.print_result,
                             args     |-> ExecuteArguments(arguments),
                             profile  |-> ProfileOn(i),
                             status   |-> "running"])
  /\ consumed' = 0
  /\ pc' = "executing"
  /\ NoAbort
  /\ UNCHANGED <<opts, backlog, clientAlive, computation, batchVars, snapshot, arguments, calls,
                 provide_infeed, infeed_shape, i, result, result_status,
                 workerVars, channel>>

\* the running program executes one of its infeed instructions: it dequeues a
\* buffer from the infeed queue, waiting while the queue is empty
ExecuteConsume ==
  /\ Running /\ pc = "executing"
  /\ consumed < computation.infeed_ops
  /\ channel > 0
  /\ channel' = channel - 1
  /\ consumed' = consumed + 1
  /\ NoAbort
  /\ UNCHANGED <<opts, backlog, clientAlive, computation, batchVars, pc, snapshot, arguments, calls,
                 provide_infeed, infeed_shape, i, result, result_status, execs,
                 workerVars>>

ResultAfterRun_KeepFirst(old, run) ==
  IF opts.print_result /\ old = NullLiteral THEN LiteralOfRun(run) ELSE old

ResultAfterRun_AlwaysRetrieve(old, run) == LiteralOfRun(run)

\* lines 164-175: what `result` holds after run number run (1-based) succeeded
ResultAfterRun(old, run) ==
  IF opts.print_result THEN LiteralOfRun(run) ELSE old

\* lines 164-178: the execute call of iteration i returns OK
ExecuteOk ==
  /\ Running /\ pc = "executing"
  /\ consumed = computation.infeed_ops
  /\ execs' = [execs EXCEPT ![Len(execs)].status = "ok"]
  /\ result' = ResultAfterRun(result, i + 1)
  /\ i' = i + 1
  /\ pc' = "run"
  /\ NoAbort
  /\ UNCHANGED <<opts, backlog, clientAlive, computation, batchVars, snapshot, arguments, calls,
                 provide_infeed, infeed_shape, result_status, consumed,
                 workerVars, channel>>

ExecuteFail_KeepGoing ==
  /\ Running /\ pc = "executing"
  /\ execs' = [execs EXCEPT ![Len(execs)].status = "error"]
  /\ i' = i + 1
  /\ pc' = "run"
  /\ NoAbort
  /\ UNCHANGED <<opts, backlog, clientAlive, computation, batchVars, snapshot, arguments,
                 calls, provide_infeed, infeed_shape, result, result_status,
                 consumed, workerVars, channel>>

\* lines 165-174: the execute call of iteration i returns an error, which
\* TF_ASSIGN_OR_RETURN / TF_RETURN_IF_ERROR returns from ReplayComputation
ExecuteFail ==
  /\ Running /\ pc = "executing"
  /\ execs' = [execs EXCEPT ![Len(execs)].status = "error"]
  /\ ReturnError("Execute")
  /\ NoAbort
  /\ UNCHANGED <<opts, backlog, clientAlive, computation, batchVars, snapshot, arguments, calls,
                 provide_infeed, infeed_shape, i, result, consumed, workerVars,
                 channel>>

\* lines 157 and 180: the loop is over, `return std::move(result)`
RunLoopExit ==
  /\ Running /\ pc = "run" /\ i >= opts.num_runs
  /\ result_status' = [ok |-> TRUE, error |-> "", value |-> result]
  /\ pc' = "returning"
  /\ NoAbort
  /\ UNCHANGED <<opts, backlog, clientAlive, computation, batchVars, snapshot, arguments, calls,
                 provide_infeed, infeed_shape, i, result, execs, consumed,
                 workerVars, channel>>

PoolDestroyed_Detached == TRUE

\* line 128: `pool` is a local of ReplayComputation; leaving the function
\* destroys it, and ~ThreadPool waits for the scheduled lambda to finish
PoolDestroyed == workerPc \in {"none", "done"}

ReturnFromReplay_NoJoin ==
  /\ Running /\ pc = "returning"
  /\ pc' = "returned"
  /\ NoAbort
  /\ UNCHANGED <<opts, backlog, clientAlive, computation, batchVars, snapshot,
                 arguments, calls, provide_infeed, infeed_shape, i, result,
                 result_status, execs, consumed, workerVars, channel>>

\* line 181 (and every error return): control is back in RealMain, line 196
ReturnFromReplay ==
  /\ Running /\ pc = "returning"
  /\ PoolDestroyed
  /\ pc' = "returned"
  /\ NoAbort
  /\ UNCHANGED <<opts, backlog, clientAlive, computation, batchVars, snapshot, arguments, calls,
                 provide_infeed, infeed_shape, i, result, result_status, execs,
                 consumed, workerVars, channel>>

(* ----------------------- RealMain: reporting --------------------------- *)
\* line 200
StatusAfterReplayError(es) == "EXIT_FAILURE"

ReportError_Break ==
  /\ Running /\ pc = "returned" /\ ~result_status.ok
  /\ failures' = failures \cup {"error"}
  /\ exit_status' = "EXIT_FAILURE"
  /\ pc' = "destroy"
  /\ NoAbort
  /\ UNCHANGED <<opts, backlog, clientAlive, computation, argIdx, report, snapshot,
                 arguments, calls, provide_infeed, infeed_shape, i, result,
                 result_status, execs, consumed, workerVars, channel>>

\* lines 197-202
ReportError ==
  /\ Running /\ pc = "returned" /\ ~result_status.ok
  /\ failures' = failures \cup {"error"}
  /\ exit_status' = StatusAfterReplayError(exit_status)
  /\ pc' = "continue"
  /\ NoAbort
  /\ UNCHANGED <<opts, backlog, clientAlive, computation, argIdx, report, snapshot, arguments, calls,
                 provide_infeed, infeed_shape, i, result, result_status, execs,
                 consumed, workerVars, channel>>

\* line 210-212: what the snapshot holds as its recorded result, seen from a
\* replay that computed `value`: none, one that does not convert to a literal,
\* or a literal that is or is not the computed one
OtherLiteral == [run |-> MaxRuns + 1]

RecordedResults(value) ==
  {[has |-> FALSE, converts |-> TRUE, literal |-> NullLiteral]}
    \cup [has : {TRUE}, converts : {TRUE}, literal : {value, OtherLiteral}]
    \cup {[has |-> TRUE, converts |-> FALSE, literal |-> NullLiteral]}

\* lines 205-217: the lines written to stdout for a returned literal
ReportLines(value, has_result, expected) ==
  IF value = NullLiteral
  THEN <<>>
  ELSE <<[kind |-> "result", literal |-> value]>>
         \o (IF has_result THEN <<[kind |-> "was", literal |-> expected]>>
                           ELSE <<>>)

StatusAfterReport_Compared(es, lines) ==
  IF Len(lines) = 2 /\ lines[1].literal # lines[2].literal
  THEN "EXIT_FAILURE" ELSE es

\* lines 204-217: exit_status after the report of a file was written
StatusAfterReport(es, lines) == es

\* lines 204-217; ConsumeValueOrDie on the recorded result dies if the proto
\* does not convert to a literal
ReportResult ==
  /\ Running /\ pc = "returned" /\ result_status.ok
  /\ IF result_status.value = NullLiteral
     THEN /\ report' = <<>>
          /\ pc' = "continue"
          /\ NoAbort
          /\ UNCHANGED <<snapshot, exit_status>>
     ELSE \E rec \in RecordedResults(result_status.value) :
            LET lines == ReportLines(result_status.value, rec.has, rec.literal) IN
            /\ snapshot' = [snapshot EXCEPT !.result_read = TRUE,
                                            !.has_result = rec.has]
            /\ IF rec.converts
               THEN /\ report' = lines
                    /\ exit_status' = StatusAfterReport(exit_status, lines)
                    /\ pc' = "continue"
                    /\ NoAbort
               ELSE /\ report' = SubSeq(lines, 1, 1)
                    /\ Abort("ConsumeValueOrDie")
                    /\ UNCHANGED <<pc, exit_status>>
  /\ UNCHANGED <<opts, backlog, clientAlive, computation, argIdx, failures,
                 arguments,
                 calls, provide_infeed, infeed_shape, i, result, result_status,
                 execs, consumed, workerVars, channel>>

\* lines 220-221
DestroyLocalInstances ==
  /\ Running /\ pc = "destroy"
  /\ clientAlive' = FALSE
  /\ process' = "exited"
  /\ UNCHANGED <<opts, backlog, abortCause, computation, batchVars, pc, snapshot, arguments, calls,
                 provide_infeed, infeed_shape, i, result, result_status, execs,
                 consumed, workerVars, channel>>

(* --------------------------- specification ----------------------------- *)
Next ==
  \/ ReadBinaryProto
  \/ LoadSnapshot
  \/ ProvisionFake
  \/ ReadRecordedArguments
  \/ ProvisionRecordedArg
  \/ ProvisionRecordedDone
  \/ ParseFakeInfeedShape
  \/ InferInfeedShape
  \/ NoInfeedRequested
  \/ SchedulePool
  \/ SkipPool
  \/ WorkerGenerate
  \/ WorkerPush
  \/ WorkerPushFail
  \/ ExecuteBegin
  \/ ExecuteConsume
  \/ ExecuteOk
  \/ ExecuteFail
  \/ RunLoopExit
  \/ ReturnFromReplay
  \/ ReportError
  \/ ReportResult
  \/ NextArg
  \/ DestroyLocalInstances

Spec == Init /\ [][Next]_vars

\* the steps the main thread takes by itself when it is scheduled; an execute
\* call that returns an error is the backend's doing, not a step it must take
MainThread ==
  \/ ReadBinaryProto
  \/ LoadSnapshot
  \/ ProvisionFake
  \/ ReadRecordedArguments
  \/ ProvisionRecordedArg
  \/ ProvisionRecordedDone
  \/ ParseFakeInfeedShape
  \/ InferInfeedShape
  \/ NoInfeedRequested
  \/ SchedulePool
  \/ SkipPool
  \/ ExecuteBegin
  \/ ExecuteConsume
  \/ ExecuteOk
  \/ RunLoopExit
  \/ ReturnFromReplay
  \/ ReportError
  \/ ReportResult
  \/ NextArg
  \/ DestroyLocalInstances

\* the steps of the thread of the "infeed" pool running the lambda; a
\* TransferToInfeed that returns an error is the backend's doing
InfeedThread ==
  \/ WorkerGenerate
  \/ WorkerPush

\* both threads are scheduled fairly: a step a thread can take and keep taking
\* is taken in the end
FairSpec ==
  /\ Init /\ [][Next]_vars
  /\ WF_vars(MainThread)
  /\ WF_vars(InfeedThread)

(* ------------------------------ claims --------------------------------- *)
\* ReplayComputation has produced its return value for the current file
Returning == pc \in {"returning", "returned", "continue"} /\ calls.load > 0

NoOverride == opts.fake_infeed_shape = ""

\* C1: with print_result and num_runs = N >= 1, a ReplayComputation that
\* returns OK has issued exactly N execute calls, all of them retrieving the
\* output, and returns the literal of the N-th call; never more than N calls
\* are issued.
C1_ReturnsLastRunOnly ==
  /\ Len(execs) <= opts.num_runs
  /\ (Returning /\ result_status.ok /\ opts.print_result /\ opts.num_runs >= 1)
       => /\ Len(execs) = opts.num_runs
          /\ \A k \in 1..Len(execs) :
               execs[k].run = k /\ execs[k].retrieve /\ execs[k].status = "ok"
          /\ result_status.value = LiteralOfRun(opts.num_runs)

C1_Witness ==
  /\ pc = "returned" /\ result_status.ok /\ opts.print_result
  /\ opts.num_runs = 2 /\ Len(execs) = 2
  /\ result_status.value = LiteralOfRun(2)

\* C2: without print_result no literal is ever held or returned and nothing is
\* written to stdout for the file, whatever num_runs is; a ReplayComputation
\* that returns OK has still issued one (non-retrieving) execute call per run.
C2_NoResultWithoutPrint ==
  ~opts.print_result =>
    /\ result = NullLiteral
    /\ result_status.value = NullLiteral
    /\ report = <<>>
    /\ \A k \in 1..Len(execs) : ~execs[k].retrieve
    /\ (Returning /\ result_status.ok) => Len(execs) = opts.num_runs

C2_Witness ==
  /\ ~opts.print_result /\ opts.num_runs = 2
  /\ pc = "continue" /\ result_status.ok /\ Len(execs) = 2
  /\ report = <<>>

\* C3: an execute call that fails is the last one issued: ReplayComputation
\* returns that error and no literal, in both branches, and nothing is written
\* to stdout for the file.
C3_FirstErrorEndsRuns ==
  \A k \in 1..Len(execs) :
    execs[k].status = "error" =>
      /\ k = Len(execs)
      /\ Returning
      /\ ~result_status.ok
      /\ result_status.error = "Execute"
      /\ result_status.value = NullLiteral
      /\ report = <<>>
      /\ \A j \in 1..(k - 1) : execs[j].status = "ok"

C3_Witness ==
  /\ opts.print_result /\ pc = "returned"
  /\ Len(execs) = 2 /\ opts.num_runs > 2 - 1
  /\ execs[1].status = "ok" /\ execs[2].status = "error"
  /\ result = LiteralOfRun(1)
  /\ ~result_status.ok

\* C4 (as claimed): once the batch has been processed, exit_status is
\* EXIT_FAILURE exactly if some file failed, an unreadable file included.
C4_ExitFailureIffAnyFileFailed ==
  process = "exited" =>
    (exit_status = "EXIT_FAILURE" <=> failures # {})

\* C5 (as claimed): an ambiguous streaming source never ends the batch: the
\* process does not die of it while input files are still to be replayed.
C5_AmbiguousSourceNoGlobalAbort ==
  ~(/\ process = "aborted"
    /\ abortCause = "CHECK(!provide_infeed)"
    /\ argIdx < NumFiles)

\* C5 (amended): a file that cannot be read and a ReplayComputation that
\* returns an error end only that file: the loop of RealMain is left only
\* after all files have been attempted, unless a CHECK / TF_CHECK_OK / OrDie
\* fails, which kills the whole process with files possibly unattempted; the
\* ambiguous streaming source is such a CHECK.
C5_LoopLeftAfterAllFiles ==
  /\ argIdx \in 1..(NumFiles + 1)
  /\ (pc = "destroy" \/ process = "exited") => argIdx = NumFiles + 1
  /\ process = "aborted" =>
       abortCause \in {"MakeFakeArgumentsOrDie", "ParseShapeString",
                       "CHECK(!provide_infeed)", "MakeFakeLiteral",
                       "TransferToInfeed", "ConsumeValueOrDie"}

C5_BatchStep ==
  \* a file that cannot be read: on to the next one
  /\ (pc = "read" /\ pc' # "read") =>
       /\ pc' \in {"load", "continue"} /\ argIdx' = argIdx /\ process' = "running"
  \* an error returned by ReplayComputation: reported, on to the next one
  /\ (pc = "returned" /\ ~result_status.ok) =>
       /\ pc' = "continue" /\ argIdx' = argIdx /\ process' = "running"
       /\ "error" \in failures'
  /\ (pc = "continue" /\ process = "running") =>
       /\ argIdx' = argIdx + 1
       /\ pc' = IF argIdx < NumFiles THEN "read" ELSE "destroy"
       /\ process' = "running"
  \* the infeed decision on an ambiguous program: the process dies
  /\ (pc = "infeed" /\ NoOverride /\ opts.generate_fake_infeed
        /\ computation.infeed_ops >= AmbiguousInfeedOps) =>
       /\ process' = "aborted" /\ abortCause' = "CHECK(!provide_infeed)"
       /\ argIdx' = argIdx
  \* a dead process stays dead: no later file is attempted
  /\ process = "aborted" => UNCHANGED vars

C5_OnlyChecksEndTheBatch == []C5_LoopLeftAfterAllFiles /\ [][C5_BatchStep]_vars

C5_Witness ==
  /\ process = "exited"
  /\ failures = {"not_snapshot", "error"}
  /\ argIdx = NumFiles + 1

\* C6: with no shape override and generate_fake_infeed, a program with two or
\* more infeed instructions never gets past the infeed decision: no pool is
\* created, no lambda scheduled, nothing pushed and no execute call issued.
C6_AmbiguousSourceFailsFirst ==
  (NoOverride /\ opts.generate_fake_infeed
     /\ computation.infeed_ops >= AmbiguousInfeedOps)
    => /\ pc \notin {"pool", "run", "executing"}
       /\ execs = <<>>
       /\ workerPc = "none"
       /\ calls.schedule = 0
       /\ calls.fake_literal = 0
       /\ pushes = <<>>
       /\ (Returning => ~result_status.ok)

C6_Witness ==
  /\ process = "aborted" /\ abortCause = "CHECK(!provide_infeed)"
  /\ computation.infeed_ops >= AmbiguousInfeedOps
  /\ Len(arguments) > 0
  /\ execs = <<>> /\ workerPc = "none"

\* C7: with no shape override, a program without infeed instructions, or any
\* program when generate_fake_infeed is off, gets no pool, no lambda and no
\* push.
C7_NoWorkerWithoutInfeed ==
  (NoOverride /\ (~opts.generate_fake_infeed \/ computation.infeed_ops = 0))
    => /\ ~provide_infeed
       /\ workerPc = "none"
       /\ calls.schedule = 0
       /\ calls.fake_literal = 0
       /\ pushes = <<>>

C7_Witness ==
  /\ NoOverride /\ opts.generate_fake_infeed
  /\ calls.load > 0 /\ computation.infeed_ops = 0
  /\ pc = "returned" /\ result_status.ok /\ Len(execs) = 2
  /\ workerPc = "none"

\* C8: the lambda makes its literal once, pushes that literal, never more than
\* num_infeeds times, a push going through only while the queue has room, and
\* is done exactly when num_infeeds pushes went through.
C8_WorkerState ==
  /\ Len(pushes) <= opts.num_infeeds
  /\ channel <= InfeedCapacity
  /\ calls.fake_literal <= 1
  /\ \A j \in 1..Len(pushes) : pushes[j] = 1
  /\ workerPc = "none" => pushes = <<>> /\ calls.fake_literal = 0
  /\ workerPc = "scheduled" =>
       /\ pushes = <<>>
       /\ calls.fake_literal = IF abortCause = "MakeFakeLiteral" THEN 1 ELSE 0
  /\ workerPc = "push" => calls.fake_literal = 1 /\ Len(pushes) < opts.num_infeeds
  /\ workerPc = "done" =>
       /\ calls.fake_literal = 1
       /\ Len(pushes) = opts.num_infeeds

\* a step that changes the pushes of the replay adds exactly one push, made by
\* the lambda in its loop while the queue has room, of the literal made before
\* the loop (or it is the end of the loop iteration of RealMain)
C8_PushStep ==
  pushes' # pushes =>
    \/ pc = "continue" /\ pushes' = <<>>
    \/ /\ workerPc = "push" /\ channel < InfeedCapacity
       /\ pushes' = Append(pushes, 1)
       /\ channel' = channel + 1
       /\ calls' = calls

C8_ExactlyNumInfeedsPushes == []C8_WorkerState /\ [][C8_PushStep]_vars

C8_Witness ==
  /\ workerPc = "done" /\ opts.num_infeeds = 2 /\ Len(pushes) = 2
  /\ provide_infeed

\* C9: a replay schedules the infeed lambda at most once, whatever num_runs
\* and num_infeeds are: a worker exists only after that one Schedule call.
C9_AtMostOneWorker ==
  /\ calls.schedule <= 1
  /\ calls.fake_literal <= calls.schedule
  /\ workerPc # "none" <=> calls.schedule = 1
  /\ calls.schedule = 1 => provide_infeed

C9_Witness ==
  /\ opts.num_runs = 2 /\ opts.num_infeeds = 2
  /\ pc = "executing" /\ i = 1
  /\ workerPc = "push" /\ calls.schedule = 1

\* C10: with use_fake_data the recorded arguments are never read, converted
\* or transferred and every handle comes from MakeFakeArgumentsOrDie; without
\* it MakeFakeArgumentsOrDie is never called and every handle is the transfer
\* of a recorded argument.
C10_ProvisioningPathsExclusive ==
  /\ opts.use_fake_data =>
       /\ ~snapshot.arguments_read
       /\ calls.from_proto = 0 /\ calls.to_server = 0
       /\ \A k \in 1..Len(arguments) : arguments[k].src = "fake"
  /\ ~opts.use_fake_data =>
       /\ calls.fake_args = 0
       /\ \A k \in 1..Len(arguments) : arguments[k].src = "recorded"
  /\ calls.fake_args <= 1

C10_Witness ==
  /\ opts.use_fake_data /\ calls.fake_args = 1
  /\ Len(arguments) = 1 /\ Len(execs) = 1
  /\ execs[1].args = arguments

\* C11: without use_fake_data every execute call is passed exactly one handle
\* per recorded argument of the snapshot, the k-th handle being the transfer of
\* the k-th recorded argument, the same list for every run.
C11_RecordedHandlesInOrder ==
  ~opts.use_fake_data =>
    \A k \in 1..Len(execs) :
      /\ snapshot.arguments_read
      /\ Len(execs[k].args) = snapshot.arguments
      /\ \A j \in 1..snapshot.arguments : execs[k].args[j] = RecordedHandle(j)
      /\ calls.from_proto = snapshot.arguments
      /\ calls.to_server = snapshot.arguments

C11_Witness ==
  /\ ~opts.use_fake_data /\ snapshot.arguments = 2
  /\ Len(execs) = 2
  /\ execs[1].args = <<RecordedHandle(1), RecordedHandle(2)>>
  /\ execs[2].args = execs[1].args

\* C12 (as claimed): no execute call is ever issued with an argument list
\* whose length differs from the number of parameters of the program.
C12_NoExecuteOnCountMismatch ==
  \A k \in 1..Len(execs) : Len(execs[k].args) = computation.params

\* C13 (as claimed): whenever the result line of a file has been written, the
\* "was" line follows it exactly if the snapshot holds a recorded result.
C13_WasLineIffRecordedResult ==
  (report # <<>> /\ pc \in {"returned", "continue"}) =>
    /\ report[1].kind = "result"
    /\ Len(report) = 2 <=> snapshot.has_result

\* C13 (amended): a replay that returned a literal gets the result line; the
\* "was" line, rendering the recorded result, follows it exactly if the
\* snapshot holds a recorded result that converts to a literal, and a recorded
\* result that does not convert kills the process after the result line. The
\* two literals are not compared: a report whose lines differ is no failure.
C13_ReportOfReturnedLiteral ==
  /\ (pc = "continue" /\ calls.load > 0 /\ result_status.ok
        /\ result_status.value # NullLiteral)
       => /\ snapshot.result_read
          /\ Len(report) = (IF snapshot.has_result THEN 2 ELSE 1)
          /\ report[1] = [kind |-> "result", literal |-> result_status.value]
          /\ Len(report) = 2 => report[2].kind = "was"
  /\ Len(report) <= 2
  /\ report # <<>> => result_status.ok /\ result_status.value # NullLiteral
  /\ abortCause = "ConsumeValueOrDie"
       => /\ snapshot.has_result /\ Len(report) = 1
          /\ report[1] = [kind |-> "result", literal |-> result_status.value]
  /\ (process = "aborted" /\ report # <<>>) => abortCause = "ConsumeValueOrDie"
  /\ exit_status = "EXIT_FAILURE" => "error" \in failures

C13_Witness ==
  /\ pc = "continue" /\ Len(report) = 2
  /\ report[2].kind = "was" /\ report[2].literal # report[1].literal
  /\ exit_status = "EXIT_SUCCESS" /\ failures = {}

\* the replay of the current file has got past the infeed decision and the
\* pool step (lines 101-146)
PastPoolStep ==
  \/ pc \in {"run", "executing"}
  \/ /\ Returning
     /\ result_status.error \notin {"LoadSnapshot", "CreateFromProto",
                                     "TransferToServer"}

\* C14 (as claimed): with a shape override the infeed decision always ends in
\* a feed worker: the process never dies at the decision, and a replay past
\* the pool step has scheduled its lambda.
C14_OverrideAlwaysGetsWorker ==
  ~NoOverride =>
    /\ pc = "infeed" => Running
    /\ PastPoolStep => calls.schedule = 1

\* C14 (amended): with a shape override the instructions are never scanned
\* and generate_fake_infeed is ignored, so CHECK(!provide_infeed) never fails,
\* whatever the number of infeed instructions; the decision either parses the
\* override, and then the replay provides infeed with the parsed shape and
\* schedules its lambda, or the string does not parse and the process dies of
\* TF_CHECK_OK before any pool exists.
C14_OverrideWinsOverScan ==
  ~NoOverride =>
    /\ abortCause # "CHECK(!provide_infeed)"
    /\ infeed_shape \in {"unset", "parsed"}
    /\ provide_infeed <=> infeed_shape = "parsed"
    /\ (pc = "infeed" /\ ~Running)
         => /\ abortCause = "ParseShapeString"
            /\ ~provide_infeed /\ workerPc = "none" /\ calls.schedule = 0
    /\ pc = "pool" => provide_infeed
    /\ PastPoolStep
         => /\ provide_infeed
            /\ calls.schedule = 1
            /\ workerPc # "none"

C14_Witness ==
  /\ ~NoOverride /\ opts.generate_fake_infeed
  /\ computation.infeed_ops = AmbiguousInfeedOps
  /\ pc = "executing" /\ infeed_shape = "parsed"
  /\ workerPc = "push" /\ consumed = 1

\* C15: a recorded argument that fails to convert or to transfer ends the
\* replay with that error at once: the failing call is not repeated, no later
\* recorded argument is converted or transferred, no pool is created, no
\* lambda scheduled, nothing pushed and no execute call issued; the error is
\* what ReplayComputation returns.
C15_ArgumentErrorEndsReplay ==
  result_status.error \in {"CreateFromProto", "TransferToServer"} =>
    /\ Returning /\ ~result_status.ok
    /\ result_status.value = NullLiteral
    /\ Len(arguments) < snapshot.arguments
    /\ calls.from_proto = Len(arguments) + 1
    /\ calls.to_server = Len(arguments)
         + (IF result_status.error = "TransferToServer" THEN 1 ELSE 0)
    /\ ~provide_infeed /\ infeed_shape = "unset"
    /\ workerPc = "none" /\ calls.schedule = 0 /\ calls.fake_literal = 0
    /\ pushes = <<>>
    /\ execs = <<>>
    /\ report = <<>>

C15_Witness ==
  /\ result_status.error = "TransferToServer"
  /\ snapshot.arguments = 2 /\ Len(arguments) = 1
  /\ pc = "continue" /\ "error" \in failures
  /\ opts.num_runs > 0 /\ ~NoOverride /\ opts.num_infeeds > 0

\* C16: the execute call of a run has profiling switched on exactly if
\* xla_hlo_profile_last_run is set and the run is the last of the num_runs
\* runs; every earlier run, and every run without the flag, has it off.
C16_ProfileOnLastRunOnly ==
  \A k \in 1..Len(execs) :
    /\ execs[k].run = k
    /\ execs[k].profile <=>
         (opts.xla_hlo_profile_last_run /\ k - 1 = opts.num_runs - 1)

C16_Witness ==
  /\ opts.xla_hlo_profile_last_run /\ opts.num_runs = 2
  /\ Len(execs) = 2
  /\ ~execs[1].profile /\ execs[2].profile

\* C17 (as claimed): the replay returns to its caller once its run loop is
\* over, whatever the lambda is doing: the return is never held up.
C17_ReturnNeverWaitsForWorker ==
  (Running /\ pc = "returning") => ENABLED ReturnFromReplay

\* C17 (amended): scheduling the lambda does not wait for it and the run loop
\* never waits for it either: an execute call can be issued whatever the
\* lambda has done so far. The return of ReplayComputation does wait: it is
\* held up exactly while a scheduled lambda has not finished all its pushes,
\* so control is back in RealMain only with the lambda finished.
C17_OnlyTheReturnWaitsForWorker ==
  /\ (Running /\ pc = "pool" /\ provide_infeed) => ENABLED SchedulePool
  /\ (Running /\ pc = "run" /\ i < opts.num_runs) => ENABLED ExecuteBegin
  /\ (Running /\ pc = "run" /\ i >= opts.num_runs) => ENABLED RunLoopExit
  /\ (Running /\ pc = "returning")
       => (ENABLED ReturnFromReplay <=> workerPc \in {"none", "done"})
  /\ (pc \in {"returned", "continue"} /\ calls.schedule > 0)
       => workerPc = "done" /\ Len(pushes) = opts.num_infeeds

C17_Witness ==
  /\ Running /\ pc = "returning" /\ result_status.ok
  /\ opts.num_runs = 2 /\ Len(execs) = 2
  /\ workerPc = "push" /\ channel = InfeedCapacity
  /\ ~ENABLED ReturnFromReplay

\* C18: a TransferToInfeed that returns an error, and a MakeFakeLiteral that
\* does, fail TF_CHECK_OK inside the lambda: the process dies on the spot, so
\* the push is not repeated, no further push is made, and the failure never
\* shows up as the error ReplayComputation returns nor as a failure RealMain
\* reports.
C18_WorkerFailureState ==
  /\ abortCause \in {"TransferToInfeed", "MakeFakeLiteral"}
       => /\ process = "aborted"
          /\ workerPc = (IF abortCause = "MakeFakeLiteral" THEN "scheduled"
                                                          ELSE "push")
          /\ Len(pushes) < opts.num_infeeds \/ abortCause = "MakeFakeLiteral"
  /\ result_status.error \in {"", "LoadSnapshot", "CreateFromProto",
                               "TransferToServer", "Execute"}

C18_WorkerFailureStep ==
  /\ (abortCause = "" /\ abortCause' \in {"TransferToInfeed", "MakeFakeLiteral"})
       => /\ pushes' = pushes /\ channel' = channel
          /\ result_status' = result_status
          /\ failures' = failures /\ exit_status' = exit_status
          /\ pc' = pc /\ report' = report
  /\ abortCause \in {"TransferToInfeed", "MakeFakeLiteral"} => UNCHANGED vars

C18_WorkerFailureIsFatal == []C18_WorkerFailureState /\ [][C18_WorkerFailureStep]_vars

C18_Witness ==
  /\ process = "aborted" /\ abortCause = "TransferToInfeed"
  /\ opts.num_infeeds = 2 /\ Len(pushes) = 1
  /\ pc = "executing" /\ result_status = NoStatus

\* the infeed buffers the num_runs runs of the current replay dequeue together
Needed == opts.num_runs * computation.infeed_ops

\* the run loop of the current replay is about to start
Started == Running /\ pc = "run" /\ i = 0 /\ execs = <<>>

\* the current replay has returned OK after all its runs
Completed ==
  /\ pc \in {"returned", "continue"} /\ calls.load > 0
  /\ result_status.ok /\ Len(execs) = opts.num_runs

\* a backend call has failed in the current replay
Failed == process = "aborted" \/ ~result_status.ok

\* a run waits for an infeed buffer that nothing is going to push
Starved ==
  /\ pc = "executing" /\ consumed < computation.infeed_ops
  /\ channel = 0
  /\ workerPc \in {"none", "done"}

\* C19 (as claimed, second half): a replay whose runs together dequeue more
\* buffers than the num_infeeds its lambda pushes never completes.
C19_TooFewFeedsNeverCompletes ==
  Needed > opts.num_infeeds => ~Completed

\* C19 (amended): under fair scheduling, unless a backend call fails, a replay
\* that provides infeed and whose runs together dequeue exactly num_infeeds
\* buffers completes all its runs with its lambda finished after num_infeeds
\* pushes; a replay whose runs together dequeue more than num_infeeds plus the
\* buffers that earlier replays left in the queue gets a run that waits for a
\* buffer with the lambda finished, waits from then on, and never completes.
C19_FeedsDecideCompletion ==
  /\ (Started /\ provide_infeed /\ Needed = opts.num_infeeds)
       ~> ((Completed /\ workerPc = "done" /\ Len(pushes) = opts.num_infeeds)
             \/ Failed)
  /\ (Started /\ Needed > opts.num_infeeds + backlog) ~> (Starved \/ Failed)
  /\ [](Needed > opts.num_infeeds + backlog => ~Completed)
  /\ [][Starved => (Starved' \/ Failed')]_vars

C19_Witness ==
  /\ Starved /\ Running /\ backlog = 1
  /\ opts.num_infeeds = 1 /\ Len(pushes) = 1
  /\ Needed = 4 /\ Len(execs) = 2 /\ execs[1].status = "ok"

\* C20: the lambda lives inside its ReplayComputation call: it exists only
\* between the pool step and the return, every return, with a result or with
\* an error, happens with the lambda finished, so no lambda is alive when the
\* next file is read or when the client is destroyed, and a push is made only
\* inside the replay that scheduled it, with the client alive.
C20_WorkerInsideReplay ==
  /\ workerPc \in {"scheduled", "push"}
       => /\ clientAlive
          /\ pc \in {"run", "executing", "returning"}
  /\ pc \in {"read", "load", "provision", "infeed", "pool", "destroy"}
       => workerPc = "none" /\ pushes = <<>>
  /\ pc \in {"returned", "continue"} => workerPc \in {"none", "done"}
  /\ ~clientAlive => workerPc = "none" /\ process = "exited"

C20_WorkerStep ==
  /\ (pc = "returning" /\ pc' # "returning")
       => pc' = "returned" /\ workerPc \in {"none", "done"}
  /\ (pushes' # pushes /\ pushes' # <<>>)
       => /\ clientAlive /\ clientAlive'
          /\ argIdx' = argIdx
          /\ pc \in {"run", "executing", "returning"} /\ pc' = pc
  /\ argIdx' # argIdx => workerPc \in {"none", "done"}
  /\ clientAlive' # clientAlive => workerPc = "none"

C20_WorkerJoinedBeforeReturn == []C20_WorkerInsideReplay /\ [][C20_WorkerStep]_vars

C20_Witness ==
  /\ pc = "returned" /\ result_status.error = "Execute"
  /\ workerPc = "done" /\ Len(pushes) = 2
  /\ argIdx = 2 /\ backlog = 1

====
